---- MODULE Spec2Model ----
(***************************************************************************)
(* A model of myhdl's fixbv: a fixed-point value stored as an integer `si` *)
(* and a binary-point position `shift`, real value = si * 2^shift, with    *)
(* optional bounds [min, max) on the stored integer.                       *)
(*                                                                         *)
(* Python integers are unbounded.  The operands of the arithmetic          *)
(* operators are drawn from small ranges and are kept as TLA+ integers.    *)
(* The right operand of a shift or a power goes through a C double in the  *)
(* code (is_integer, __int__, __long__), so it is kept in a wide form: a   *)
(* sign and the set of positions of the one-bits of the absolute value.    *)
(* A double is kept in the same form (positions may be negative).          *)
(*                                                                         *)
(* Three machines share the variables: Spec (one operator call on an       *)
(* instance), SpecConstruct (construction, the si property, nrbits and     *)
(* _handleBounds, and the module run as a script) and SpecItem             *)
(* (assignments to bits and slices, one after the other, and reads of      *)
(* bits, slices and the bit list).                                         *)
(***************************************************************************)
EXTENDS Integers, Sequences, FiniteSets, TLC

\* ------------------------------------------------------------------ bounds
MaxVal == 3         \* stored integers of the operands: -MaxVal .. MaxVal
MaxShift == 2       \* shifts of the operands: -MaxShift .. MaxShift
MaxAmount == 2      \* small shift amounts and exponents: -MaxAmount .. MaxAmount
MaxBit == 2         \* bit positions assigned to: up to MaxBit

\* ------------------------------------------------------- program constants
MantissaBits == 53      \* significant bits of a C double (Python float)
DoubleMaxExp == 1024    \* a double is below 2^1024 in absolute value
LargeBit == 99          \* the tests' large shift factor is 2**99 + 1
LargeShift == 31        \* the tests' fixbv(2**99 + 1, -31)

\* ----------------------------------------------------------- Python values
None == {}
Some(v) == {v}
Get(x) == CHOOSE v \in x : TRUE

Ok(v) == [status |-> "ok", val |-> v]
Raise(e) == [status |-> e, val |-> <<>>]

Min(a, b) == IF a <= b THEN a ELSE b
Max(a, b) == IF a >= b THEN a ELSE b
abs(n) == IF n < 0 THEN -n ELSE n

\* Python's a // b and a % b on integers: the quotient is rounded towards
\* minus infinity, the remainder has the sign of the divisor.
floordiv_int(a, b) ==
    LET q == abs(a) \div abs(b)
        exact == q * abs(b) = abs(a)
    IN  IF (a < 0) = (b < 0) THEN q
        ELSE IF exact THEN -q ELSE -q - 1

mod_int(a, b) == a - b * floordiv_int(a, b)

\* a ** n on integers, n >= 0
RECURSIVE pow_int(_, _)
pow_int(a, n) == IF n = 0 THEN 1 ELSE a * pow_int(a, n - 1)

\* ------------------------------------------------------------- wide values
\* A wide value is [neg, bits]: (-1)^neg * sum of 2^p for p in bits.
\* An integer has no negative position; zero is [neg |-> FALSE, bits |-> {}].
SetMax(S) == CHOOSE m \in S : \A x \in S : x <= m

Wide(neg, bits) == [neg |-> neg /\ bits # {}, bits |-> bits]

NatBits(n) == {i \in 0..30 : (n \div (2^i)) % 2 = 1}

ToWide(n) == Wide(n < 0, NatBits(abs(n)))

RECURSIVE nat_add(_, _)
nat_add(X, Y) ==
    IF X \cap Y = {} THEN X \cup Y
    ELSE nat_add((X \cup Y) \ (X \cap Y), {p + 1 : p \in X \cap Y})

\* X - Y for X >= Y
RECURSIVE nat_sub(_, _)
nat_sub(X, Y) ==
    IF Y \ X = {} THEN X \ Y
    ELSE nat_sub((X \cup Y) \ (X \cap Y), {p + 1 : p \in Y \ X})

nat_less(X, Y) ==
    LET D == (X \cup Y) \ (X \cap Y)
    IN  D # {} /\ SetMax(D) \in Y

RECURSIVE nat_mul(_, _)
nat_mul(X, Y) ==
    IF Y = {} THEN {}
    ELSE LET q == SetMax(Y)
         IN  nat_add({p + q : p \in X}, nat_mul(X, Y \ {q}))

wide_add(x, y) ==
    IF x.neg = y.neg THEN Wide(x.neg, nat_add(x.bits, y.bits))
    ELSE IF nat_less(x.bits, y.bits) THEN Wide(y.neg, nat_sub(y.bits, x.bits))
    ELSE Wide(x.neg, nat_sub(x.bits, y.bits))

wide_neg(x) == Wide(~x.neg, x.bits)

wide_mul(x, y) == Wide(x.neg # y.neg, nat_mul(x.bits, y.bits))

\* x * 2^k, exact
wide_scale(x, k) == Wide(x.neg, {p + k : p \in x.bits})

wide_is_whole(x) == \A p \in x.bits : p >= 0

\* rounding towards zero to an integer: int(f), long(f) of a float f
wide_trunc(x) == Wide(x.neg, {p \in x.bits : p >= 0})

wide_is_odd(x) == 0 \in x.bits

RECURSIVE nat_val(_)
nat_val(S) == IF S = {} THEN 0 ELSE LET p == SetMax(S) IN 2^p + nat_val(S \ {p})

\* the TLA+ integer of a wide integer that is small enough
FromWide(x) == IF x.neg THEN -nat_val(x.bits) ELSE nat_val(x.bits)

\* float(n) of a Python integer n as CPython converts it: rounded to
\* MantissaBits significant bits, to nearest with ties to even;
\* OverflowError when the rounded value does not fit a double.
float_of_long(x) ==
    IF x.bits = {} THEN Ok(x)
    ELSE LET top == SetMax(x.bits)
             lsb == top - (MantissaBits - 1)
             kept == {p \in x.bits : p >= lsb}
             rest == x.bits \ kept
             up == (lsb - 1) \in rest /\ (rest # {lsb - 1} \/ lsb \in kept)
             r == IF up THEN nat_add(kept, {lsb}) ELSE kept
         IN  IF SetMax(r) >= DoubleMaxExp THEN Raise("OverflowError")
             ELSE Ok(Wide(x.neg, r))

\* ------------------------------------------------------------------- fixbv
\* An instance is [type, si, shift, min, max]; min and max are None or
\* Some(integer).  A plain Python integer operand is [type, val].
PyInt(k) == [type |-> "int", val |-> k]

\* _handleBounds that takes the upper bound as inclusive
handleBounds_inclusive(self) ==
    IF self.max # None /\ self.min # None
    THEN ~((Get(self.min) > self.si) \/ (self.si > Get(self.max)))
    ELSE TRUE

\* fixbv._handleBounds: TRUE when it returns, FALSE when it raises ValueError
handleBounds(self) ==
    IF self.max # None /\ self.min # None
    THEN ~((Get(self.min) > self.si) \/ (self.si >= Get(self.max)))
    ELSE TRUE

\* __init__ that validates the value against the bounds before it compares
\* the bounds with each other
fixbv_rangefirst(val, shift, min, max) ==
    IF ~((min = None /\ max = None) \/ (min # None /\ max # None))
    THEN Raise("AssertionError")
    ELSE LET self == [type |-> "fixbv", si |-> val, shift |-> shift,
                      min |-> min, max |-> max]
         IN  IF ~handleBounds(self) THEN Raise("ValueError")
             ELSE IF max # None /\ ~(Get(min) < Get(max))
             THEN Raise("AssertionError")
             ELSE Ok(self)

\* fixbv.__init__(val, shift, min, max) with rawinit=True
fixbv(val, shift, min, max) ==
    IF ~((min = None /\ max = None) \/ (min # None /\ max # None))
    THEN Raise("AssertionError")
    ELSE IF max # None /\ ~(Get(min) < Get(max))
    THEN Raise("AssertionError")
    ELSE LET self == [type |-> "fixbv", si |-> val, shift |-> shift,
                      min |-> min, max |-> max]
         IN  IF handleBounds(self) THEN Ok(self) ELSE Raise("ValueError")

\* fixbv(val, shift) and fixbv(val): the defaults shift=0, min=None, max=None
fixbv2(val, shift) == fixbv(val, shift, None, None)
fixbv1(val) == fixbv(val, 0, None, None)

isfixbv(other) == other.type = "fixbv"

\* ln 2 to 108 binary places: the positions of its one-bits
Ln2Bits ==
    {-108, -107, -106, -105, -104, -103, -93, -92, -89, -88, -87, -84, -83,
     -81, -80, -79, -75, -74, -73, -72, -69, -66, -65, -64, -63, -61, -59,
     -57, -56, -53, -52, -51, -50, -48, -47, -46, -45, -42, -41, -40, -36,
     -34, -33, -32, -31, -30, -28, -27, -26, -25, -24, -23, -22, -20, -15,
     -12, -11, -10, -8, -4, -3, -1}

\* math.log(2**k): the natural logarithm k * ln 2, rounded to a double
log_pow2(k) == float_of_long(Wide(FALSE, nat_mul(Ln2Bits, NatBits(k)))).val

\* ceil(log(2**k, 2)) for k >= 1.  math.log(x, 2) is the double log(x)
\* divided by the double log(2), rounded to a double.  The quotient rounds
\* to a double above k exactly when it exceeds k by more than half the
\* spacing of the doubles above k, and then its ceiling is k + 1.
ceil_log_pow2(k) ==
    LET num == log_pow2(k).bits
        den == log_pow2(1).bits
        top == SetMax(NatBits(k))
        half == {p + top - MantissaBits : p \in den}
    IN  IF nat_less(nat_add(nat_mul(den, NatBits(k)), half), num)
        THEN k + 1
        ELSE k

\* ceil(log(n, 2)) for 1 <= n <= 2^30.  When n is no power of two, log2(n)
\* is at least 2^-31 away from a whole number, far more than the error of
\* the double computation, and the ceiling is the exact one; log(1, 2) is 0.
ceil_log2(n) ==
    LET k == CHOOSE e \in 0..30 : 2^e >= n /\ (e = 0 \/ 2^(e - 1) < n)
    IN  IF n = 2^k /\ k >= 1 THEN ceil_log_pow2(k) ELSE k

calc_nr_bits(val) ==
    IF val = 0 THEN 0
    ELSE IF val < 0 THEN ceil_log2(-val) + 1
    ELSE ceil_log2(val + 1) + 1

\* fixbv.getnrbits (the nrbits property)
getnrbits(self) ==
    IF self.min = None THEN 0
    ELSE LET NrBitsMin == calc_nr_bits(Get(self.min))
             NrBitsMax == calc_nr_bits(Get(self.max) - 1)
         IN  Max(NrBitsMin, NrBitsMax)

\* alignvalues that takes over the smaller shift without rescaling the value
alignvalues_noscale(a, b) ==
    IF a[2] >= b[2] THEN << <<a[1], b[2]>>, <<b[1], b[2]>> >>
    ELSE << <<a[1], a[2]>>, <<b[1], a[2]>> >>

\* alignvalues that scales by the size of the smaller shift instead of the
\* difference of the two shifts
alignvalues_absshift(a, b) ==
    IF a[2] >= b[2] THEN << <<a[1] * 2^abs(b[2]), b[2]>>, <<b[1], b[2]>> >>
    ELSE << <<a[1], a[2]>>, <<b[1] * 2^abs(a[2]), a[2]>> >>

\* alignvalues((a_val, a_shift), (b_val, b_shift))
RECURSIVE alignvalues(_, _)
alignvalues(a, b) ==
    LET a_val == a[1]
        a_shift == a[2]
        b_val == b[1]
        b_shift == b[2]
    IN  IF a_shift >= b_shift
        THEN LET diff_shift == a_shift - b_shift
             IN  << <<a_val * 2^diff_shift, b_shift>>, <<b_val, b_shift>> >>
        ELSE LET r == alignvalues(b, a)
             IN  <<r[2], r[1]>>

\* fixbv.align
align(self, other) ==
    IF isfixbv(other)
    THEN LET a == <<self.si, self.shift>>
             b == <<other.si, other.shift>>
             cd == alignvalues(a, b)
             x == fixbv2(cd[1][1], cd[1][2]).val
             y == fixbv2(cd[2][1], cd[2][2]).val
         IN  Ok(<<x, y>>)
    ELSE Raise("TypeError")

\* ---------------------------------------------------- arithmetic operators
\* Each returns Ok(value) or Raise(exception).

\* __add__ that adds the stored integers without aligning them
add_noalign(self, other) ==
    LET o == IF isfixbv(other) THEN other ELSE fixbv1(other.val).val
    IN  fixbv2(self.si + o.si, Min(self.shift, o.shift))

\* fixbv.__add__
RECURSIVE add(_, _)
add(self, other) ==
    IF isfixbv(other)
    THEN LET cd == align(self, other).val
             c == cd[1]
             d == cd[2]
         IN  fixbv2(c.si + d.si, c.shift)
    ELSE LET x == fixbv1(other.val).val
         IN  add(self, x)

\* __radd__ = __add__
radd(self, other) == add(self, other)

\* __sub__ with the operands of the subtraction exchanged
sub_reversed(self, other) ==
    LET o == IF isfixbv(other) THEN other ELSE fixbv1(other.val).val
        cd == align(self, o).val
    IN  fixbv2(cd[2].si - cd[1].si, cd[1].shift)

\* fixbv.__sub__
RECURSIVE sub(_, _)
sub(self, other) ==
    IF isfixbv(other)
    THEN LET cd == align(self, other).val
             c == cd[1]
             d == cd[2]
         IN  fixbv2(c.si - d.si, c.shift)
    ELSE LET x == fixbv1(other.val).val
         IN  sub(self, x)

\* fixbv.__rsub__: other - self
rsub(self, other) ==
    LET x == fixbv1(other.val).val
    IN  sub(x, self)

\* __mul__ that gives the product the common shift of an aligned pair
mul_minshift(self, other) ==
    LET o == IF isfixbv(other) THEN other ELSE fixbv1(other.val).val
    IN  fixbv2(self.si * o.si, Min(self.shift, o.shift))

\* fixbv.__mul__
RECURSIVE mul(_, _)
mul(self, other) ==
    IF isfixbv(other)
    THEN fixbv2(self.si * other.si, self.shift + other.shift)
    ELSE LET x == fixbv1(other.val).val
         IN  mul(self, x)

\* __rmul__ = __mul__
rmul(self, other) == mul(self, other)

\* __floordiv__ with the quotient rounded towards zero
floordiv_trunc(self, other) ==
    LET o == IF isfixbv(other) THEN other ELSE fixbv1(other.val).val
        cd == align(self, o).val
        c == cd[1]
        d == cd[2]
        q == abs(c.si) \div abs(d.si)
    IN  IF d.si = 0 THEN Raise("ZeroDivisionError")
        ELSE fixbv2(IF (c.si < 0) = (d.si < 0) THEN q ELSE -q, 0)

\* fixbv.__floordiv__
RECURSIVE floordiv(_, _)
floordiv(self, other) ==
    IF isfixbv(other)
    THEN LET cd == align(self, other).val
             c == cd[1]
             d == cd[2]
         IN  IF d.si = 0 THEN Raise("ZeroDivisionError")
             ELSE fixbv2(floordiv_int(c.si, d.si), 0)
    ELSE LET x == fixbv1(other.val).val
         IN  floordiv(self, x)

\* __mod__ that takes the remainder of the absolute values
mod_absolute(self, other) ==
    LET o == IF isfixbv(other) THEN other ELSE fixbv1(other.val).val
        cd == align(self, o).val
    IN  IF cd[2].si = 0 THEN Raise("ZeroDivisionError")
        ELSE fixbv2(mod_int(abs(cd[1].si), abs(cd[2].si)), cd[1].shift)

\* __mod__ with the remainder of a division rounded towards zero
mod_trunc(self, other) ==
    LET o == IF isfixbv(other) THEN other ELSE fixbv1(other.val).val
        cd == align(self, o).val
        c == cd[1]
        d == cd[2]
        q == abs(c.si) \div abs(d.si)
    IN  IF d.si = 0 THEN Raise("ZeroDivisionError")
        ELSE fixbv2(c.si - d.si * (IF (c.si < 0) = (d.si < 0) THEN q ELSE -q),
                    c.shift)

\* fixbv.__mod__
RECURSIVE mod(_, _)
mod(self, other) ==
    IF isfixbv(other)
    THEN LET cd == align(self, other).val
             c == cd[1]
             d == cd[2]
         IN  IF d.si = 0 THEN Raise("ZeroDivisionError")
             ELSE fixbv2(mod_int(c.si, d.si), c.shift)
    ELSE LET x == fixbv1(other.val).val
         IN  mod(self, x)

\* fixbv.__rmod__: other % self
rmod(self, other) ==
    LET x == fixbv1(other.val).val
    IN  mod(x, self)

\* __neg__ that hands the bounds of self on to its result
neg_keepbounds(self) ==
    Ok([type |-> "fixbv", si |-> -self.si, shift |-> self.shift,
        min |-> self.min, max |-> self.max])

\* fixbv.__neg__
neg(self) == fixbv2(-self.si, self.shift)

\* fixbv.__pos__
pos(self) == fixbv2(self.si, self.shift)

\* fixbv.__abs__
fixbv_abs(self) == fixbv2(abs(self.si), self.shift)

\* __eq__ that compares the stored integers as they are, without aligning
eq_noalign(self, other) ==
    LET o == IF isfixbv(other) THEN other ELSE fixbv1(other.val).val
    IN  self.si = o.si

\* fixbv.__eq__
RECURSIVE eq(_, _)
eq(self, other) ==
    IF isfixbv(other)
    THEN LET cd == align(self, other).val
             c == cd[1]
             d == cd[2]
         IN  c.si = d.si
    ELSE LET other_fixbv == fixbv1(other.val).val
         IN  eq(self, other_fixbv)

\* fixbv.__ne__
ne(self, other) == ~eq(self, other)

\* fixbv.__lt__
RECURSIVE lt(_, _)
lt(self, other) ==
    IF isfixbv(other)
    THEN LET cd == align(self, other).val
             c == cd[1]
             d == cd[2]
         IN  c.si < d.si
    ELSE LET other_fixbv == fixbv1(other.val).val
         IN  lt(self, other_fixbv)

\* fixbv.__le__
RECURSIVE le(_, _)
le(self, other) ==
    IF isfixbv(other)
    THEN LET cd == align(self, other).val
             c == cd[1]
             d == cd[2]
         IN  c.si <= d.si
    ELSE LET other_fixbv == fixbv1(other.val).val
         IN  le(self, other_fixbv)

\* __gt__ computed from its own operands: not (self < other)
gt_notlt(self, other) == ~lt(self, other)

\* fixbv.__gt__
gt(self, other) == ~le(self, other)

\* fixbv.__ge__
ge(self, other) == ~lt(self, other)

\* ----------------------------------------------------- indexing, slicing
\* Python's bit operators on integers: unbounded two's complement.

\* a >> n for n >= 0
rshift_int(a, n) == floordiv_int(a, 2^n)

\* ~a
invert_int(a) == -a - 1

\* a & b
RECURSIVE and_int(_, _)
and_int(a, b) ==
    IF a = 0 \/ b = 0 THEN 0
    ELSE IF a = -1 THEN b
    ELSE IF b = -1 THEN a
    ELSE 2 * and_int(rshift_int(a, 1), rshift_int(b, 1))
         + (IF mod_int(a, 2) = 1 /\ mod_int(b, 2) = 1 THEN 1 ELSE 0)

\* a | b
RECURSIVE or_int(_, _)
or_int(a, b) ==
    IF a = 0 THEN b
    ELSE IF b = 0 THEN a
    ELSE IF a = -1 \/ b = -1 THEN -1
    ELSE 2 * or_int(rshift_int(a, 1), rshift_int(b, 1))
         + (IF mod_int(a, 2) = 1 \/ mod_int(b, 2) = 1 THEN 1 ELSE 0)

\* A key is a plain integer [type, val] or slice(start, stop), with start and
\* stop None or Some(integer): a[i:j] is slice(i, j), a[:j] is slice(None, j).
Slice(start, stop) == [type |-> "slice", start |-> start, stop |-> stop]
isslice(key) == key.type = "slice"

\* intbv(val, _nrbits=n): an unsigned field of n bits; n = 0 when not given
intbv(val, nrbits) == [type |-> "intbv", val |-> val, nrbits |-> nrbits]

\* __getitem__ whose slice is not cut off above its upper position
getitem_unmasked(self, key) ==
    IF isslice(key)
    THEN IF key.start = None \/ key.stop = None THEN Raise("TypeError")
         ELSE LET i == Get(key.start) - self.shift
                  j == Get(key.stop) - self.shift
              IN  IF j < 0 THEN Raise("ValueError")
                  ELSE IF i <= j THEN Raise("ValueError")
                  ELSE Ok(intbv(rshift_int(self.si, j), i - j))
    ELSE LET i == key.val - self.shift
         IN  IF i < 0 THEN Raise("ValueError")
             ELSE Ok(and_int(rshift_int(self.si, i), 1) = 1)

\* fixbv.__getitem__.  key.start - self.shift raises TypeError when a side of
\* the slice is None, so the two defaults that follow it are never taken;
\* a >> n raises ValueError for n < 0.
getitem(self, key) ==
    IF isslice(key)
    THEN IF key.start = None \/ key.stop = None THEN Raise("TypeError")
         ELSE LET i == Get(key.start) - self.shift
                  j == Get(key.stop) - self.shift
              IN  IF j < 0 THEN Raise("ValueError")
                  ELSE IF i <= j THEN Raise("ValueError")
                  ELSE LET res == intbv(rshift_int(and_int(self.si, 2^i - 1),
                                                   j), i - j)
                       IN  Ok(res)
    ELSE LET i == key.val - self.shift
         IN  IF i < 0 THEN Raise("ValueError")
             ELSE LET res == and_int(rshift_int(self.si, i), 1) = 1
                  IN  Ok(res)

\* __iter__ that lists the bits from the least significant one
fixbv_iter_lsbfirst(self) ==
    IF getnrbits(self) = 0 THEN Raise("TypeError")
    ELSE LET n == getnrbits(self)
         IN  Ok([k \in 1..n |-> getitem(self, PyInt((k - 1) + self.shift)).val])

\* fixbv.__iter__: the list of self[i + shift] for i = nrbits-1 down to 0
fixbv_iter(self) ==
    IF getnrbits(self) = 0 THEN Raise("TypeError")
    ELSE LET n == getnrbits(self)
         IN  Ok([k \in 1..n |-> getitem(self, PyInt((n - k) + self.shift)).val])

\* What __setitem__ leaves: the exception raised ("ok" when it returns) and
\* the instance as it is then.  A raise before any assignment to self.si
\* leaves the instance as it was; _handleBounds runs after the assignment.
Unchanged(self, exc) == [status |-> exc, self |-> self]
Stored(self, si) ==
    LET new == [self EXCEPT !.si = si]
    IN  [status |-> IF handleBounds(new) THEN "ok" ELSE "ValueError",
         self |-> new]

\* fixbv.__setitem__.  1 << i raises ValueError for i < 0.
setitem(self, key, val) ==
    IF isslice(key)
    THEN LET j == IF key.stop = None THEN 0 ELSE Get(key.stop)
         IN  IF j < 0 THEN Unchanged(self, "ValueError")
             ELSE IF key.start = None
             THEN LET q == mod_int(self.si, 2^j)
                  IN  Stored(self, val * 2^j + q)
             ELSE LET i == Get(key.start)
                  IN  IF i <= j THEN Unchanged(self, "ValueError")
                      ELSE LET lim == 2^(i - j)
                               mask == (lim - 1) * 2^j
                           IN  IF val >= lim \/ val < -lim
                               THEN Unchanged(self, "ValueError")
                               ELSE Stored(self,
                                        or_int(and_int(self.si,
                                                       invert_int(mask)),
                                               val * 2^j))
    ELSE LET i == key.val
         IN  IF val = 1
             THEN IF i < 0 THEN Unchanged(self, "ValueError")
                  ELSE Stored(self, or_int(self.si, 2^i))
             ELSE IF val = 0
             THEN IF i < 0 THEN Unchanged(self, "ValueError")
                  ELSE Stored(self, and_int(self.si, invert_int(2^i)))
             ELSE Unchanged(self, "ValueError")

\* --------------------------------------------- shift amounts and exponents
\* Here the right operand is wide: a plain integer [type, val] with a wide
\* val, or a fixbv whose si is wide.

\* self.si*2**self.shift as Python evaluates it: an exact integer when
\* shift >= 0; for shift < 0, 2**shift is a float, si is converted to a float
\* and the product is a float (exact: the shifts drawn stay far from the
\* subnormal range).
scaled(self) ==
    IF self.shift >= 0
    THEN [status |-> "ok", isfloat |-> FALSE,
          val |-> wide_scale(self.si, self.shift)]
    ELSE LET f == float_of_long(self.si)
         IN  IF f.status # "ok"
             THEN [status |-> f.status, isfloat |-> TRUE, val |-> <<>>]
             ELSE [status |-> "ok", isfloat |-> TRUE,
                   val |-> wide_scale(f.val, self.shift)]

\* fixbv.__float__
fixbv_float(self) ==
    LET v == scaled(self)
    IN  IF v.status # "ok" THEN Raise(v.status)
        ELSE IF v.isfloat THEN Ok(v.val)
        ELSE float_of_long(v.val)

\* fixbv.__long__
fixbv_long(self) ==
    LET v == scaled(self)
    IN  IF v.status # "ok" THEN Raise(v.status)
        ELSE IF v.isfloat THEN Ok(wide_trunc(v.val))
        ELSE Ok(v.val)

\* fixbv.__int__
fixbv_int(self) ==
    LET v == scaled(self)
    IN  IF v.status # "ok" THEN Raise(v.status)
        ELSE IF v.isfloat THEN Ok(wide_trunc(v.val))
        ELSE Ok(v.val)

\* fixbv.is_integer
is_integer(self) ==
    LET f == fixbv_float(self)
    IN  IF f.status # "ok" THEN Raise(f.status)
        ELSE Ok(wide_is_whole(f.val))

\* long(self.si**powerval): the stored integer fixbv.__init__ keeps.  For
\* powerval < 0 Python computes float(si)**float(powerval), and long()
\* rounds that float towards zero.
long_pow(si, powerval) ==
    IF powerval.neg
    THEN LET e == float_of_long(powerval)
         IN  IF e.status # "ok" THEN Raise(e.status)
             ELSE IF si = 0 THEN Raise("ZeroDivisionError")
             ELSE IF si = 1 THEN Ok(1)
             ELSE IF si = -1 THEN Ok(IF wide_is_odd(e.val) THEN -1 ELSE 1)
             ELSE Ok(0)
    ELSE IF si = 0 THEN Ok(IF powerval.bits = {} THEN 1 ELSE 0)
    ELSE IF si = 1 THEN Ok(1)
    ELSE IF si = -1 THEN Ok(IF wide_is_odd(powerval) THEN -1 ELSE 1)
    ELSE Ok(pow_int(si, FromWide(powerval)))

\* fixbv.__pow__
pow(self, other) ==
    LET isint == IF isfixbv(other) THEN is_integer(other) ELSE Ok(TRUE)
    IN  IF isint.status # "ok" THEN Raise(isint.status)
        ELSE IF ~isint.val THEN Raise("TypeError")
        ELSE LET powerval == IF isfixbv(other) THEN fixbv_int(other)
                             ELSE Ok(other.val)
             IN  IF powerval.status # "ok" THEN Raise(powerval.status)
                 ELSE LET v == long_pow(self.si, powerval.val)
                      IN  IF v.status # "ok" THEN Raise(v.status)
                          ELSE fixbv2(v.val, wide_mul(ToWide(self.shift),
                                                      powerval.val))

\* fixbv.__lshift__
RECURSIVE lshift(_, _)
lshift(self, other) ==
    IF isfixbv(other)
    THEN LET isint == is_integer(other)
         IN  IF isint.status # "ok" THEN Raise(isint.status)
             ELSE IF isint.val
             THEN LET n == fixbv_long(other)
                  IN  IF n.status # "ok" THEN Raise(n.status)
                      ELSE fixbv2(self.si, wide_add(ToWide(self.shift), n.val))
             ELSE Raise("TypeError")
    ELSE LET x == fixbv1(other.val).val
         IN  lshift(self, x)

\* fixbv.__rshift__
RECURSIVE rshift(_, _)
rshift(self, other) ==
    IF isfixbv(other)
    THEN LET isint == is_integer(other)
         IN  IF isint.status # "ok" THEN Raise(isint.status)
             ELSE IF isint.val
             THEN LET n == fixbv_long(other)
                  IN  IF n.status # "ok" THEN Raise(n.status)
                      ELSE fixbv2(self.si,
                                  wide_add(ToWide(self.shift), wide_neg(n.val)))
             ELSE Raise("TypeError")
    ELSE LET x == fixbv1(other.val).val
         IN  rshift(self, x)

\* ------------------------------------------------------------------ signed
\* fixbv.signed: its first test reads self.min.  The class and its instances
\* have the data attributes _val, _shift, _min, _max and the properties
\* below, no attribute min and no __getattr__, so the read raises
\* AttributeError; the rest of the method follows it.
signed(self) ==
    LET attributes == {"_val", "_shift", "_min", "_max", "maxfloat",
                       "minfloat", "si", "shift", "fractionlength", "minsi",
                       "maxsi", "nrbits"}
    IN  IF "min" \notin attributes THEN Raise("AttributeError")
        ELSE IF self.min # None /\ Get(self.min) >= 0 /\ getnrbits(self) > 0
        THEN LET msb == getnrbits(self) - 1
                 sign == and_int(rshift_int(self.si, msb), 1) > 0
                 mask == 2^msb - 1
                 retVal == and_int(self.si, mask)
             IN  Ok(IF sign THEN retVal - 2^msb ELSE retVal)
        ELSE Ok(self.si)

\* ------------------------------------------------- reverse floor division
\* a // b of two floats, b = self.si * 2**self.shift not zero, as an integer.
\* When |si| is a power of two the division only moves the binary point of a,
\* so the float quotient is exact and is rounded down; otherwise a is small,
\* a - fmod(a, b) and its quotient by b are exact, and the result is the
\* floor of the exact quotient.
float_floordiv(a, self) ==
    LET n == abs(self.si)
        ispow2 == \E e \in 0..30 : 2^e = n
    IN  IF ispow2
        THEN LET e == CHOOSE e \in 0..30 : 2^e = n
                 q == wide_scale(Wide(a.neg # (self.si < 0), a.bits),
                                 -self.shift - e)
             IN  IF wide_is_whole(q) THEN q
                 ELSE IF q.neg THEN wide_add(wide_trunc(q), ToWide(-1))
                 ELSE wide_trunc(q)
        ELSE ToWide(floordiv_int(FromWide(a) * 2^Max(0, -self.shift),
                                 self.si * 2^Max(0, self.shift)))

\* __rfloordiv__ that divides the integer itself, not its float
rfloordiv_exact(self, other) ==
    IF self.si = 0 THEN Raise("ZeroDivisionError")
    ELSE Ok(PyInt(float_floordiv(other.val, self)))

\* fixbv.__rfloordiv__ for a plain integer other:
\* int(float(other) // float(self.si*2**self.shift)), a plain integer
rfloordiv(self, other) ==
    LET a == float_of_long(other.val)
    IN  IF a.status # "ok" THEN Raise(a.status)
        ELSE IF self.si = 0 THEN Raise("ZeroDivisionError")
        ELSE Ok(PyInt(float_floordiv(a.val, self)))

\* ---------------------------------------------- operators that only raise
\* __truediv__ as the code commented out in it: the quotient of the stored
\* integers, scaled by the difference of the shifts
truediv_quotient(self, other) ==
    LET o == IF isfixbv(other) THEN other ELSE fixbv1(other.val).val
    IN  IF o.si = 0 THEN Raise("ZeroDivisionError")
        ELSE fixbv2(floordiv_int(self.si, o.si), self.shift - o.shift)

\* fixbv.__truediv__
truediv(self, other) == Raise("NotImplementedError")

\* fixbv.__rtruediv__: x = fixbv(other), then x / self
rtruediv(self, other) ==
    LET x == fixbv1(other.val)
    IN  IF x.status # "ok" THEN Raise(x.status) ELSE truediv(x.val, self)

\* fixbv.__itruediv__
itruediv(self, other) == Raise("TypeError")

\* fixbv.__rpow__
rpow(self, other) == Raise("NotImplementedError")

\* fixbv.__and__, __rand__, __or__, __ror__, __xor__, __rxor__
and(self, other) == Raise("TypeError")
rand(self, other) == Raise("TypeError")
or(self, other) == Raise("TypeError")
ror(self, other) == Raise("TypeError")
xor(self, other) == Raise("TypeError")
rxor(self, other) == Raise("TypeError")

\* ---------------------------------------------------- augmented operators
\* Each calls the plain operator, then result._handleBounds(), and returns
\* result; no attribute of self is assigned.  What is kept of a call: the
\* value returned or the exception, and the instance as it is afterwards.
augmented(self, result) ==
    IF result.status # "ok" THEN [status |-> result.status, val |-> <<>>,
                                  self |-> self]
    ELSE IF handleBounds(result.val)
    THEN [status |-> "ok", val |-> result.val, self |-> self]
    ELSE [status |-> "ValueError", val |-> <<>>, self |-> self]

\* __iadd__ as its FIXME asks for: the sum is stored in self and validated
\* against the bounds of self
iadd_inplace(self, other) ==
    LET result == add(self, other)
        new == [self EXCEPT !.si = result.val.si, !.shift = result.val.shift]
    IN  IF handleBounds(new)
        THEN [status |-> "ok", val |-> new, self |-> new]
        ELSE [status |-> "ValueError", val |-> <<>>, self |-> new]

\* fixbv.__iadd__, __isub__, __imul__, __ifloordiv__, __imod__, __ipow__,
\* __ilshift__, __irshift__
iadd(self, other) == augmented(self, add(self, other))
isub(self, other) == augmented(self, sub(self, other))
imul(self, other) == augmented(self, mul(self, other))
ifloordiv(self, other) == augmented(self, floordiv(self, other))
imod(self, other) == augmented(self, mod(self, other))
ipow(self, other) == augmented(self, pow(self, other))
ilshift(self, other) == augmented(self, lshift(self, other))
irshift(self, other) == augmented(self, rshift(self, other))

\* ----------------------------------------------------------------- inputs
Vals == -MaxVal..MaxVal
Shifts == -MaxShift..MaxShift

BoundPairs ==
    {<<None, None>>,
     <<Some(-MaxVal), Some(MaxVal + 1)>>,
     <<Some(0), Some(MaxVal + 1)>>}

\* every instance a successful construction yields from these arguments
Fixbvs ==
    {r.val : r \in {c \in {fixbv(v, s, b[1], b[2]) :
                              v \in Vals, s \in Shifts, b \in BoundPairs} :
                        c.status = "ok"}}

IntOperands == {PyInt(k) : k \in Vals}
Operands == Fixbvs \cup IntOperands

\* 2**99 + 1 and -(2**99 + 1) (the tests' large shift factor) and 2**1024,
\* the first power of two a double cannot hold
LargeInts ==
    {Wide(FALSE, {0, LargeBit}), Wide(TRUE, {0, LargeBit}),
     Wide(FALSE, {DoubleMaxExp})}

WideInts == {ToWide(k) : k \in -MaxAmount..MaxAmount} \cup LargeInts
WideShifts == Shifts \cup {-LargeShift}

WideFixbvs == {fixbv2(w, s).val : w \in WideInts, s \in WideShifts}
WideOperands == WideFixbvs \cup {PyInt(w) : w \in WideInts}

\* self.si**powerval is evaluated for exponents up to MaxAmount, and for
\* any exponent when the base is -1, 0 or 1
PowOperands ==
    {o \in WideOperands :
        IF isfixbv(o)
        THEN fixbv_int(o).status = "ok" =>
                 nat_less(fixbv_int(o).val.bits, NatBits(MaxAmount + 1))
        ELSE nat_less(o.val.bits, NatBits(MaxAmount + 1))}

\* the integers k of k // self: the large ones where the float division is
\* a move of the binary point (|self.si| a power of two) or fails (0)
RFloorDivOperands(self) ==
    {PyInt(ToWide(k)) : k \in Vals} \cup
    IF \E e \in 0..30 : 2^e = abs(self.si) \/ self.si = 0
    THEN {PyInt(w) : w \in LargeInts}
    ELSE {}

\* ------------------------------------------------------------ state machine
VARIABLES
    self,       \* the left operand, a fixbv instance
    other,      \* the right operand of the last operator call
    op,         \* the operator called, "none" before the call
    result      \* what the call returned or raised

vars == <<self, other, op, result>>

Init ==
    /\ self \in Fixbvs
    /\ other = PyInt(0)
    /\ op = "none"
    /\ result = [status |-> "none", val |-> <<>>]

Ready == op = "none"

Call(name, o, r) ==
    /\ op' = name
    /\ other' = o
    /\ result' = r
    /\ UNCHANGED self

Align ==
    /\ Ready
    /\ \E o \in Operands : Call("align", o, align(self, o))

Add ==
    /\ Ready
    /\ \E o \in Operands : Call("add", o, add(self, o))

RAdd ==
    /\ Ready
    /\ \E o \in IntOperands : Call("radd", o, radd(self, o))

Sub ==
    /\ Ready
    /\ \E o \in Operands : Call("sub", o, sub(self, o))

RSub ==
    /\ Ready
    /\ \E o \in IntOperands : Call("rsub", o, rsub(self, o))

Mul ==
    /\ Ready
    /\ \E o \in Operands : Call("mul", o, mul(self, o))

RMul ==
    /\ Ready
    /\ \E o \in IntOperands : Call("rmul", o, rmul(self, o))

FloorDiv ==
    /\ Ready
    /\ \E o \in Operands : Call("floordiv", o, floordiv(self, o))

Mod ==
    /\ Ready
    /\ \E o \in Operands : Call("mod", o, mod(self, o))

RMod ==
    /\ Ready
    /\ \E o \in IntOperands : Call("rmod", o, rmod(self, o))

Pow ==
    /\ Ready
    /\ \E o \in IF abs(self.si) <= 1 THEN WideOperands ELSE PowOperands :
           Call("pow", o, pow(self, o))

LShift ==
    /\ Ready
    /\ \E o \in WideOperands : Call("lshift", o, lshift(self, o))

RShift ==
    /\ Ready
    /\ \E o \in WideOperands : Call("rshift", o, rshift(self, o))

Neg ==
    /\ Ready
    /\ Call("neg", PyInt(0), neg(self))

Pos ==
    /\ Ready
    /\ Call("pos", PyInt(0), pos(self))

Abs ==
    /\ Ready
    /\ Call("abs", PyInt(0), fixbv_abs(self))

Eq ==
    /\ Ready
    /\ \E o \in Operands : Call("eq", o, Ok(eq(self, o)))

Ne ==
    /\ Ready
    /\ \E o \in Operands : Call("ne", o, Ok(ne(self, o)))

Lt ==
    /\ Ready
    /\ \E o \in Operands : Call("lt", o, Ok(lt(self, o)))

Le ==
    /\ Ready
    /\ \E o \in Operands : Call("le", o, Ok(le(self, o)))

Gt ==
    /\ Ready
    /\ \E o \in Operands : Call("gt", o, Ok(gt(self, o)))

Ge ==
    /\ Ready
    /\ \E o \in Operands : Call("ge", o, Ok(ge(self, o)))

\* self <op>= o: the call, and what it leaves of self
CallAugmented(name, o, r) ==
    /\ op' = name
    /\ other' = o
    /\ result' = [status |-> r.status, val |-> r.val]
    /\ self' = r.self

IAdd ==
    /\ Ready
    /\ \E o \in Operands : CallAugmented("iadd", o, iadd(self, o))

ISub ==
    /\ Ready
    /\ \E o \in Operands : CallAugmented("isub", o, isub(self, o))

IMul ==
    /\ Ready
    /\ \E o \in Operands : CallAugmented("imul", o, imul(self, o))

IFloorDiv ==
    /\ Ready
    /\ \E o \in Operands : CallAugmented("ifloordiv", o, ifloordiv(self, o))

IMod ==
    /\ Ready
    /\ \E o \in Operands : CallAugmented("imod", o, imod(self, o))

IPow ==
    /\ Ready
    /\ \E o \in IF abs(self.si) <= 1 THEN WideOperands ELSE PowOperands :
           CallAugmented("ipow", o, ipow(self, o))

ILShift ==
    /\ Ready
    /\ \E o \in WideOperands : CallAugmented("ilshift", o, ilshift(self, o))

IRShift ==
    /\ Ready
    /\ \E o \in WideOperands : CallAugmented("irshift", o, irshift(self, o))

Signed ==
    /\ Ready
    /\ Call("signed", PyInt(0), signed(self))

RFloorDiv ==
    /\ Ready
    /\ \E o \in RFloorDivOperands(self) :
           Call("rfloordiv", o, rfloordiv(self, o))

TrueDiv ==
    /\ Ready
    /\ \E o \in Operands : Call("truediv", o, truediv(self, o))

RTrueDiv ==
    /\ Ready
    /\ \E o \in IntOperands : Call("rtruediv", o, rtruediv(self, o))

ITrueDiv ==
    /\ Ready
    /\ \E o \in Operands : Call("itruediv", o, itruediv(self, o))

RPow ==
    /\ Ready
    /\ \E o \in IntOperands : Call("rpow", o, rpow(self, o))

And ==
    /\ Ready
    /\ \E o \in Operands : Call("and", o, and(self, o))

RAnd ==
    /\ Ready
    /\ \E o \in IntOperands : Call("rand", o, rand(self, o))

Or ==
    /\ Ready
    /\ \E o \in Operands : Call("or", o, or(self, o))

ROr ==
    /\ Ready
    /\ \E o \in IntOperands : Call("ror", o, ror(self, o))

Xor ==
    /\ Ready
    /\ \E o \in Operands : Call("xor", o, xor(self, o))

RXor ==
    /\ Ready
    /\ \E o \in IntOperands : Call("rxor", o, rxor(self, o))

Next ==
    \/ Align
    \/ Add
    \/ RAdd
    \/ Sub
    \/ RSub
    \/ Mul
    \/ RMul
    \/ FloorDiv
    \/ Mod
    \/ RMod
    \/ Pow
    \/ LShift
    \/ RShift
    \/ Neg
    \/ Pos
    \/ Abs
    \/ Eq
    \/ Ne
    \/ Lt
    \/ Le
    \/ Gt
    \/ Ge
    \/ IAdd
    \/ ISub
    \/ IMul
    \/ IFloorDiv
    \/ IMod
    \/ IPow
    \/ ILShift
    \/ IRShift
    \/ TrueDiv
    \/ RTrueDiv
    \/ ITrueDiv
    \/ RPow
    \/ And
    \/ RAnd
    \/ Or
    \/ ROr
    \/ Xor
    \/ RXor
    \/ RFloorDiv
    \/ Signed

Spec == Init /\ [][Next]_vars

\* ------------------------------------------- construction and validation
\* A second machine over the same variables: a program that constructs an
\* instance, then reads its nrbits, or assigns the stored integer through
\* the si property and calls _handleBounds (as testHandleBounds does).

\* fixbv(): every argument at its default
DefaultFixbv == fixbv(0, 0, None, None).val

CtorVals == -(MaxVal + 2)..(MaxVal + 2)

\* bounds of the size of the values, and 2**29
LargeBounds == {2^29}
CtorBounds ==
    {None} \cup {Some(k) : k \in -(MaxVal + 1)..(MaxVal + 2)}
           \cup {Some(k) : k \in LargeBounds}

InitConstruct ==
    /\ self = DefaultFixbv
    /\ other = PyInt(0)
    /\ op = "none"
    /\ result = [status |-> "none", val |-> <<>>]

\* a = fixbv(val, shift, min, max): a is bound to the new instance when
\* __init__ returns
Construct ==
    /\ op = "none"
    /\ \E val \in CtorVals, shift \in Shifts,
          min \in CtorBounds, max \in CtorBounds :
           LET r == fixbv(val, shift, min, max)
           IN  /\ op' = "init"
               /\ other' = [val |-> val, shift |-> shift,
                            min |-> min, max |-> max]
               /\ result' = r
               /\ self' = IF r.status = "ok" THEN r.val ELSE self

Constructed == op = "init" /\ result.status = "ok"

\* a.si = val (fixbv.setsi): no validation
SetSi ==
    /\ Constructed
    /\ \E val \in CtorVals :
           /\ self' = [self EXCEPT !.si = val]
           /\ op' = "setsi"
           /\ other' = PyInt(val)
           /\ result' = Ok(<<>>)

\* a._handleBounds()
HandleBounds ==
    /\ Constructed \/ op = "setsi"
    /\ op' = "handleBounds"
    /\ result' = IF handleBounds(self) THEN Ok(<<>>) ELSE Raise("ValueError")
    /\ UNCHANGED <<self, other>>

\* a.nrbits
NrBits ==
    /\ Constructed
    /\ op' = "nrbits"
    /\ result' = Ok(getnrbits(self))
    /\ UNCHANGED <<self, other>>

\* the module run as a script: a = fixbv(11, -3); b = fixbv(1, -2);
\* (c, d) = a.align(b), and c and d are printed
Main ==
    /\ op = "none"
    /\ LET a == fixbv2(11, -3).val
           b == fixbv2(1, -2).val
       IN  /\ self' = a
           /\ other' = b
           /\ result' = align(a, b)
           /\ op' = "main"

NextConstruct ==
    \/ Main
    \/ Construct
    \/ SetSi
    \/ HandleBounds
    \/ NrBits

SpecConstruct == InitConstruct /\ [][NextConstruct]_vars

\* ------------------------------------------------ assignment and indexing
\* A third machine over the same variables: a program that assigns to bits
\* and slices of an instance and reads them, statement after statement,
\* going on after an assignment whether it returned or raised.

ItemBoundPairs == BoundPairs \cup {<<Some(0), Some(1)>>}

ItemFixbvs ==
    {r.val : r \in {c \in {fixbv(v, s, b[1], b[2]) :
                              v \in Vals, s \in Shifts, b \in ItemBoundPairs} :
                        c.status = "ok"}}

\* positions in the stored integer, and one below
SetPositions == -1..MaxBit
SetSides == {None} \cup {Some(p) : p \in SetPositions}
SetVals == -MaxBit..MaxBit

\* positions on the scale of the real value: those of the stored integer,
\* moved by the shift
GetPositions == (-1 - MaxShift)..(MaxBit + 1 + MaxShift)
GetSides == {None} \cup {Some(p) : p \in GetPositions}

InitItem ==
    /\ self \in ItemFixbvs
    /\ other = PyInt(0)
    /\ op = "none"
    /\ result = [status |-> "none", val |-> <<>>]

Assigned == op \in {"setbit", "setrange", "setopen"}

\* self[key] = val
Assign(name, key, val) ==
    LET r == setitem(self, key, val)
    IN  /\ self' = r.self
        /\ op' = name
        /\ other' = [key |-> key, val |-> val]
        /\ result' = [status |-> r.status, val |-> <<>>]

\* self[i] = val
SetBit ==
    /\ Ready
    /\ \E i \in SetPositions, val \in SetVals : Assign("setbit", PyInt(i), val)

\* self[i:j] = val and self[i:] = val
SetRange ==
    /\ Ready
    /\ \E i \in SetSides \ {None}, j \in SetSides, val \in SetVals :
           Assign("setrange", Slice(i, j), val)

\* self[:j] = val and self[:] = val
SetOpen ==
    /\ Ready
    /\ \E j \in SetSides, val \in SetVals : Assign("setopen", Slice(None, j), val)

\* self[key]
Read(name, key) ==
    /\ op' = name
    /\ other' = key
    /\ result' = getitem(self, key)
    /\ UNCHANGED self

\* self[i]
GetBit ==
    /\ Ready
    /\ \E i \in GetPositions : Read("getbit", PyInt(i))

\* self[i:j], self[i:], self[:j], self[:]
GetRange ==
    /\ Ready
    /\ \E i \in GetSides, j \in GetSides : Read("getrange", Slice(i, j))

\* list(self)
Iter ==
    /\ Ready
    /\ op' = "iter"
    /\ other' = PyInt(0)
    /\ result' = fixbv_iter(self)
    /\ UNCHANGED self

\* the assignment is over (its exception, if any, handled by the caller) and
\* the program is at its next statement
Continue ==
    /\ Assigned
    /\ op' = "none"
    /\ other' = PyInt(0)
    /\ result' = [status |-> "none", val |-> <<>>]
    /\ UNCHANGED self

NextItem ==
    \/ SetBit
    \/ SetRange
    \/ SetOpen
    \/ Continue
    \/ GetBit
    \/ GetRange
    \/ Iter

SpecItem == InitItem /\ [][NextItem]_vars

\* ------------------------------------------------------------------ claims
\* The mathematics the claims are stated in, independent of the operators.

\* an operand as a scaled integer: a plain integer k is k * 2^0
Scaled(o) == IF isfixbv(o) THEN [si |-> o.si, shift |-> o.shift]
             ELSE [si |-> o.val, shift |-> 0]

\* m1 * 2^s1 = m2 * 2^s2, compared on integers
RealEq(m1, s1, m2, s2) ==
    LET lo == Min(s1, s2)
    IN  m1 * 2^(s1 - lo) = m2 * 2^(s2 - lo)

\* the magnitude of x on the grid 2^s, for s <= x.shift
OnGrid(x, s) == x.si * 2^(x.shift - s)

Returned == result.status = "ok"

\* the call was a comparison: its result is a boolean
Compared == op \in {"eq", "ne", "lt", "le", "gt", "ge"}

\* C1: align returns two values with the smaller of the two shifts, each with
\* the real value of the operand it stands for; the operand with the smaller
\* shift (both, when the shifts are equal) keeps its magnitude.
C1_AlignExact ==
    (op = "align" /\ isfixbv(other)) =>
        /\ Returned
        /\ LET a == result.val[1]
               b == result.val[2]
           IN  /\ a.shift = Min(self.shift, other.shift)
               /\ b.shift = Min(self.shift, other.shift)
               /\ RealEq(a.si, a.shift, self.si, self.shift)
               /\ RealEq(b.si, b.shift, other.si, other.shift)
               /\ (self.shift <= other.shift => a.si = self.si)
               /\ (other.shift <= self.shift => b.si = other.si)

C1_Witness ==
    /\ op = "align" /\ isfixbv(other) /\ Returned
    /\ self.shift > other.shift
    /\ self.si # 0
    /\ result.val[1].si # self.si
    /\ result.val[2].si = other.si

\* C2: a + b has shift min(a.shift, b.shift) and magnitude the sum of the
\* aligned magnitudes, for a fixbv or plain integer right operand and for the
\* reflected form k + a, and a + k == k + a.
C2_AddExact ==
    (op \in {"add", "radd"}) =>
        LET b == Scaled(other)
            s == Min(self.shift, b.shift)
        IN  /\ Returned
            /\ result.val.shift = s
            /\ result.val.si = OnGrid(self, s) + OnGrid(b, s)
            /\ (op = "radd" => eq(add(self, other).val, result.val))
            /\ (op = "add" /\ ~isfixbv(other) =>
                    eq(result.val, radd(self, other).val))

C2_Witness ==
    /\ op = "add" /\ isfixbv(other) /\ Returned
    /\ self.shift < other.shift
    /\ self.si # 0 /\ other.si # 0
    /\ result.val.si # self.si + other.si

\* C3: a - b has shift min(a.shift, b.shift) and magnitude the difference of
\* the aligned magnitudes; k - a likewise; and a - k == -(k - a).
C3_SubExact ==
    /\ (op = "sub") =>
           LET b == Scaled(other)
               s == Min(self.shift, b.shift)
           IN  /\ Returned
               /\ result.val.shift = s
               /\ result.val.si = OnGrid(self, s) - OnGrid(b, s)
    /\ (op = "rsub") =>
           LET k == Scaled(other)
               s == Min(self.shift, k.shift)
           IN  /\ Returned
               /\ result.val.shift = s
               /\ result.val.si = OnGrid(k, s) - OnGrid(self, s)
               /\ eq(sub(self, other).val, neg(result.val).val)

C3_Witness ==
    /\ op = "rsub" /\ Returned
    /\ self.shift < 0 /\ self.si # 0 /\ other.val # 0
    /\ result.val.si # other.val - self.si

\* C4: a * b has magnitude a.magnitude * b.magnitude and shift
\* a.shift + b.shift, for a fixbv or plain integer operand in either order.
C4_MulExact ==
    (op \in {"mul", "rmul"}) =>
        LET b == Scaled(other)
        IN  /\ Returned
            /\ result.val.si = self.si * b.si
            /\ result.val.shift = self.shift + b.shift
            /\ (op = "rmul" => eq(mul(self, other).val, result.val))
            /\ (op = "mul" /\ ~isfixbv(other) =>
                    eq(result.val, rmul(self, other).val))

C4_Witness ==
    /\ op = "mul" /\ isfixbv(other) /\ Returned
    /\ self.shift < 0 /\ other.shift < 0 /\ self.shift # other.shift
    /\ self.si < 0 /\ other.si > 1

\* C5: for a nonzero fixbv b, a // b has shift 0 and magnitude q, the floor of
\* the quotient of the real values: q * B <= A < (q + 1) * B for the aligned
\* magnitudes A, B when B > 0, the reverse when B < 0; a // a is 1.
C5_FloorDivExact ==
    (op = "floordiv" /\ isfixbv(other) /\ other.si # 0) =>
        LET s == Min(self.shift, other.shift)
            A == OnGrid(self, s)
            B == OnGrid(other, s)
        IN  /\ Returned
            /\ result.val.shift = 0
            /\ LET q == result.val.si
               IN  /\ B > 0 => (q * B <= A /\ A < (q + 1) * B)
                   /\ B < 0 => (q * B >= A /\ A > (q + 1) * B)
                   /\ (A = B => q = 1)

C5_Witness ==
    /\ op = "floordiv" /\ isfixbv(other) /\ Returned
    /\ self.shift > other.shift
    /\ self.si < 0 /\ other.si > 0
    /\ result.val.si < 0
    /\ result.val.si * OnGrid(other, other.shift) # OnGrid(self, other.shift)

\* C6: for a nonzero fixbv b, a % b has shift min(a.shift, b.shift) and
\* magnitude r with A - r a multiple of B (A, B the aligned magnitudes), r zero
\* or of the sign of B, and |r| < |B|.
C6_ModExact ==
    (op = "mod" /\ isfixbv(other) /\ other.si # 0) =>
        LET s == Min(self.shift, other.shift)
            A == OnGrid(self, s)
            B == OnGrid(other, s)
        IN  /\ Returned
            /\ result.val.shift = s
            /\ LET r == result.val.si
               IN  /\ \E q \in -(abs(A) + 1)..(abs(A) + 1) : q * B + r = A
                   /\ (r = 0 \/ ((r < 0) = (B < 0)))
                   /\ abs(r) < abs(B)

C6_Witness ==
    /\ op = "mod" /\ isfixbv(other) /\ Returned
    /\ self.shift # other.shift
    /\ self.si > 0 /\ other.si < 0
    /\ result.val.si < 0

\* the exact value of a shift amount or exponent, in wide form
ExactValue(o) == IF isfixbv(o) THEN wide_scale(o.si, o.shift) ELSE o.val

WholeValued(o) == wide_is_whole(ExactValue(o))

SmallValued(o) == ExactValue(o) \in {ToWide(k) : k \in -MaxAmount..MaxAmount}

\* C7: for an exponent of whole value n (a plain integer or a fixbv), a ** n
\* has shift a.shift * n and magnitude a.magnitude^n: for n < 0 that is the
\* magnitude m with m * a.magnitude^(-n) = 1.  (0 ** n is left out for n < 0.)
C7_PowExact ==
    (/\ op = "pow"
     /\ WholeValued(other)
     /\ SmallValued(other)
     /\ ~(self.si = 0 /\ ExactValue(other).neg)) =>
        LET n == FromWide(ExactValue(other))
        IN  /\ Returned
            /\ result.val.shift = ToWide(self.shift * n)
            /\ IF n >= 0 THEN result.val.si = pow_int(self.si, n)
               ELSE result.val.si * pow_int(self.si, -n) = 1

\* C8: for a plain integer or a fixbv of shift 0 as the amount n, whatever its
\* size and sign, a << n and a >> n return the magnitude of a with the shift
\* a.shift + n and a.shift - n.
C8_ShiftExact ==
    (op \in {"lshift", "rshift"} /\ (isfixbv(other) => other.shift = 0)) =>
        LET n == IF isfixbv(other) THEN other.si ELSE other.val
        IN  /\ Returned
            /\ result.val.si = self.si
            /\ result.val.shift =
                   wide_add(ToWide(self.shift),
                            IF op = "lshift" THEN n ELSE wide_neg(n))

\* C9: with a fixbv as the right operand, power and the two shifts raise
\* TypeError exactly when its real value si * 2^shift is not a whole number.
C9_NonIntegerRejected ==
    (op \in {"pow", "lshift", "rshift"} /\ isfixbv(other)) =>
        ((result.status = "TypeError") = ~WholeValued(other))

\* C10: every value an arithmetic operator or align returns has no bounds
\* and so nrbits 0, whatever the bounds of the operands.
C10_BoundsDropped ==
    (op # "none" /\ ~Compared /\ op # "rfloordiv" /\ Returned) =>
        LET vs == IF op = "align" THEN {result.val[1], result.val[2]}
                  ELSE {result.val}
        IN  \A v \in vs : v.min = None /\ v.max = None /\ getnrbits(v) = 0

C10_Witness ==
    /\ op = "neg" /\ Returned
    /\ self.min # None /\ getnrbits(self) > 0
    /\ result.val.si # self.si

\* C11: construction raises AssertionError when exactly one of min and max is
\* given, and when both are given with min >= max, whether or not the value
\* lies outside the bounds as well.
C11_InvalidBounds ==
    (op = "init") =>
        LET one == (other.min = None) # (other.max = None)
            both == other.min # None /\ other.max # None
        IN  /\ one => result.status = "AssertionError"
            /\ (both /\ Get(other.min) >= Get(other.max)) =>
                   result.status = "AssertionError"

C11_Witness ==
    /\ op = "init"
    /\ other.min = Some(MaxVal + 2) /\ other.max = Some(MaxVal)
    /\ other.val < MaxVal
    /\ result.status = "AssertionError"
    /\ self = DefaultFixbv

\* C12: with min < max both given, construction returns exactly when
\* min <= val < max and raises ValueError otherwise; _handleBounds returns
\* exactly when the bounds are absent or min <= si < max: si = min and
\* si = max - 1 pass, si = max and si = min - 1 raise ValueError.
C12_InRange ==
    /\ (/\ op = "init"
        /\ other.min # None /\ other.max # None
        /\ Get(other.min) < Get(other.max)) =>
           LET inside == Get(other.min) <= other.val
                             /\ other.val < Get(other.max)
           IN  /\ Returned = inside
               /\ ~inside => result.status = "ValueError"
               /\ inside => self.si = other.val
    /\ (op = "handleBounds") =>
           /\ result.status \in {"ok", "ValueError"}
           /\ self.min = None => Returned
           /\ self.min # None =>
                  /\ Returned = (Get(self.min) <= self.si
                                     /\ self.si < Get(self.max))
                  /\ self.si \in {Get(self.min), Get(self.max) - 1} => Returned
                  /\ self.si \in {Get(self.min) - 1, Get(self.max)} =>
                         ~Returned

C12_Witness ==
    /\ op = "handleBounds"
    /\ self.max # None
    /\ self.si = Get(self.max)
    /\ result.status = "ValueError"

\* the least k with 2^k >= n: the exact ceil(log2(n)), n >= 1
CeilLog2(n) == CHOOSE k \in 0..31 : 2^k >= n /\ (k = 0 \/ 2^(k - 1) < n)

\* bit_width of the specification
BitWidth(v) ==
    IF v = 0 THEN 0
    ELSE IF v > 0 THEN CeilLog2(v + 1) + 1
    ELSE CeilLog2(-v) + 1

\* C13: nrbits is 0 without bounds and otherwise the larger of
\* bit_width(min) and bit_width(max - 1), with bit_width(0) = 0,
\* bit_width(v) = ceil(log2(v + 1)) + 1 for v > 0 and ceil(log2(-v)) + 1
\* for v < 0.
C13_NrBits ==
    (op = "nrbits") =>
        /\ Returned
        /\ result.val = IF self.min = None THEN 0
                        ELSE Max(BitWidth(Get(self.min)),
                                 BitWidth(Get(self.max) - 1))

\* C16: of a < b, a == b, a > b exactly one holds; a >= b is not (a < b)
\* and a <= b is not (a > b); a == a, a + 1 > a and a - 1 < a.
C16_Trichotomy ==
    Compared =>
        LET l == lt(self, other)
            e == eq(self, other)
            g == gt(self, other)
        IN  /\ Returned
            /\ (op = "lt" => result.val = l) /\ (op = "eq" => result.val = e)
            /\ (op = "gt" => result.val = g)
            /\ (l \/ e \/ g) /\ ~(l /\ e) /\ ~(l /\ g) /\ ~(e /\ g)
            /\ (op = "ge" => result.val = ~l)
            /\ (op = "le" => result.val = ~g)
            /\ (op = "ne" => result.val = ~e)
            /\ eq(self, self)
            /\ gt(add(self, PyInt(1)).val, self)
            /\ lt(sub(self, PyInt(1)).val, self)

C16_Witness ==
    /\ op = "gt" /\ Returned /\ ~result.val
    /\ isfixbv(other)
    /\ self.shift # other.shift
    /\ self.si # other.si
    /\ eq(self, other)
    /\ self.min # other.min

\* C17: a == b holds exactly when a.si * 2^a.shift = b.si * 2^b.shift; the
\* bounds of a and b and the representation do not matter, and a plain
\* integer k is compared as fixbv(k, 0).
C17_EqualValues ==
    (op = "eq") =>
        LET b == Scaled(other)
            unbounded == [self EXCEPT !.min = None, !.max = None]
        IN  /\ Returned
            /\ result.val = RealEq(self.si, self.shift, b.si, b.shift)
            /\ result.val = eq(unbounded, other)
            /\ ~isfixbv(other) =>
                   result.val = eq(self, fixbv(other.val, 0, None, None).val)

C17_Witness ==
    /\ op = "eq" /\ Returned /\ result.val
    /\ isfixbv(other)
    /\ self.shift < other.shift
    /\ self.si # other.si
    /\ self.min # None /\ other.min = None

\* C14: a bounded instance has min <= si < max in every state reachable by
\* assignments to bits and slices, those that raised included.
C14_WithinBounds ==
    self.min # None => (Get(self.min) <= self.si /\ self.si < Get(self.max))

\* C15: an assignment to a bit or a slice that raises leaves si, shift, min
\* and max as they were before the call.
C15_FailedAssignKeeps ==
    [][(Assigned' /\ result'.status # "ok") => self' = self]_vars

\* the integer a list of bits stands for, most significant bit first
RECURSIVE BitsValue(_)
BitsValue(bits) ==
    IF bits = <<>> THEN 0
    ELSE 2 * BitsValue(SubSeq(bits, 1, Len(bits) - 1))
         + (IF bits[Len(bits)] THEN 1 ELSE 0)

\* C18: with n = nrbits > 0, iteration gives n booleans, most significant
\* first, that spell si mod 2^n; with nrbits = 0 it raises TypeError.
C18_IterBits ==
    (op = "iter") =>
        LET n == getnrbits(self)
        IN  IF n = 0 THEN result.status = "TypeError"
            ELSE /\ Returned
                 /\ Len(result.val) = n
                 /\ \A k \in 1..n : result.val[k] \in BOOLEAN
                 /\ BitsValue(result.val) = mod_int(self.si, 2^n)

C18_Witness ==
    /\ op = "iter" /\ Returned
    /\ self.shift # 0
    /\ self.si < 0
    /\ result.val[1] /\ ~result.val[Len(result.val)]

\* C19: after self[i] = v has returned, v 0 or 1, self[i] is v and self[p]
\* is what it was before for every other position p.
C19_GetSetSameBit ==
    [][(op' = "setbit" /\ result'.status = "ok") =>
           LET i == other'.key.val
               v == other'.val
           IN  /\ v \in {0, 1}
               /\ getitem(self', PyInt(i)) = Ok(v = 1)
               /\ \A p \in GetPositions \ {i} :
                      getitem(self', PyInt(p)) = getitem(self, PyInt(p))]_vars

\* bit k of a non-negative integer
BitOf(r, k) == (r \div 2^k) % 2 = 1

\* C20: self[high:low] raises ValueError when low - shift < 0 or when
\* high <= low; otherwise it is an unsigned field r of high - low bits,
\* 0 <= r < 2^(high - low), whose bit k is self[low + k].
C20_RangeGet ==
    (op = "getrange" /\ other.start # None /\ other.stop # None) =>
        LET high == Get(other.start)
            low == Get(other.stop)
        IN  IF low - self.shift < 0 \/ high <= low
            THEN result.status = "ValueError"
            ELSE /\ Returned
                 /\ result.val.nrbits = high - low
                 /\ 0 <= result.val.val
                 /\ result.val.val < 2^(high - low)
                 /\ \A k \in 0..(high - low - 1) :
                        getitem(self, PyInt(low + k)) =
                            Ok(BitOf(result.val.val, k))

C20_Witness ==
    /\ op = "getrange" /\ Returned
    /\ self.si < 0
    /\ self.shift # 0
    /\ result.val.nrbits > 1
    /\ result.val.val > 0
    /\ result.val.val # mod_int(self.si, 2^result.val.nrbits)

\* C21: self[high:low] = v raises ValueError when low < 0 or high <= low, and
\* for a valid range when v is outside [-2^(high-low), 2^(high-low)), and for
\* no other v unless the bounds reject the new value; after it has returned
\* with 0 <= v < 2^(high-low), self[high:low] is v, whatever the shift.
C21_RangeSetGet ==
    (op = "setrange" /\ other.key.stop # None) =>
        LET high == Get(other.key.start)
            low == Get(other.key.stop)
            v == other.val
            valid == ~(low < 0 \/ high <= low)
            fits == -(2^(high - low)) <= v /\ v < 2^(high - low)
        IN  /\ ~valid => result.status = "ValueError"
            /\ (valid /\ ~fits) => result.status = "ValueError"
            /\ (valid /\ fits /\ self.min = None) => Returned
            /\ (Returned /\ 0 <= v) =>
                   getitem(self, other.key) = Ok(intbv(v, high - low))

\* C22: self[:low] = v, once it has returned, leaves si = v * 2^low +
\* (old si mod 2^low), and self[:low] then returns the part above low, v,
\* instead of raising.
C22_OpenSlice ==
    [][(op' = "setopen" /\ result'.status = "ok") =>
           LET low == IF other'.key.stop = None THEN 0
                      ELSE Get(other'.key.stop)
               v == other'.val
               read == getitem(self', other'.key)
           IN  /\ self'.si = v * 2^low + mod_int(self.si, 2^low)
               /\ read.status = "ok"
               /\ read.val.val = v]_vars

\* the plain operator behind an augmented one
PlainOf(name, a, b) ==
    CASE name = "iadd" -> add(a, b)
      [] name = "isub" -> sub(a, b)
      [] name = "imul" -> mul(a, b)
      [] name = "ifloordiv" -> floordiv(a, b)
      [] name = "imod" -> mod(a, b)
      [] name = "ipow" -> pow(a, b)
      [] name = "ilshift" -> lshift(a, b)
      [] name = "irshift" -> rshift(a, b)

AugmentedOps ==
    {"iadd", "isub", "imul", "ifloordiv", "imod", "ipow", "ilshift", "irshift"}

UnsupportedOps ==
    {"truediv", "rtruediv", "itruediv", "and", "rand", "or", "ror", "xor",
     "rxor", "rpow"}

\* the exceptions by which the code says that an operation is not supported
UnsupportedOperation == {"NotImplementedError", "TypeError"}

\* C24: true division (a / b, k / a, a /= b), bitwise and, or and xor in
\* either order, and the reverse power k ** a always raise the exception of
\* an unsupported operation, never return a value, and leave self and the
\* other operand as they were.
C24_Unsupported ==
    [][(op' \in UnsupportedOps) =>
           /\ result'.status \in UnsupportedOperation
           /\ result'.val = <<>>
           /\ self' = self
           /\ other' \in Operands]_vars

C24_Witness ==
    /\ op = "truediv" /\ isfixbv(other)
    /\ self.si # 0 /\ other.si # 0 /\ self.shift # other.shift
    /\ result.status = "NotImplementedError"

\* C25 as stated: aligning fixbv(11, -3) with fixbv(1, -2) gives two values
\* of shift -3, the first with si 11 and the second with si 8.
C25_AlignExample_Stated ==
    op = "main" =>
        /\ Returned
        /\ result.val[1].shift = -3 /\ result.val[2].shift = -3
        /\ result.val[1].si = 11
        /\ result.val[2].si = 8

\* C25, amended: aligning fixbv(11, -3) with fixbv(1, -2) gives two values
\* of shift -3, the first with si 11 and the second with si 2 (1 * 2**-2 is
\* 2 * 2**-3).
C25_AlignExample ==
    op = "main" =>
        /\ Returned
        /\ result.val[1].shift = -3 /\ result.val[2].shift = -3
        /\ result.val[1].si = 11
        /\ result.val[2].si = 2

C25_Witness ==
    /\ op = "main" /\ Returned
    /\ self.si = 11 /\ self.shift = -3
    /\ other.si = 1 /\ other.shift = -2
    /\ result.val[2].si * 4 = other.si * 8

\* C26: for a plain integer k and a fixbv a that is not zero, k // a returns
\* the floor of k / (a.si * 2^a.shift), which is the stored integer of
\* fixbv(k, 0) // a, for small k and for k = 2**99 + 1, -(2**99 + 1) and
\* 2**1024.
C26_RFloorDivExact ==
    (op = "rfloordiv" /\ self.si # 0) =>
        /\ Returned
        /\ result.val = rfloordiv_exact(self, other).val
        /\ other.val \notin LargeInts =>
               ToWide(floordiv(fixbv1(FromWide(other.val)).val, self).val.si)
                   = result.val.val

\* C27: signed() returns an integer for every instance: si read as a two's
\* complement number of nrbits bits when min >= 0 and nrbits > 0, and si
\* itself otherwise.
C27_SignedReturns ==
    op = "signed" =>
        /\ Returned
        /\ result.val =
               IF self.min # None /\ Get(self.min) >= 0 /\ getnrbits(self) > 0
               THEN LET half == 2^(getnrbits(self) - 1)
                    IN  mod_int(self.si + half, 2 * half) - half
               ELSE self.si

\* bit k of the two's complement form of an integer, as n >> k & 1 gives it
TwosBit(n, k) == and_int(rshift_int(n, k), 1)

\* C28: a range assignment self[high:low] = v that returns leaves every bit
\* of si outside the positions low .. high-1 as it was, for every accepted
\* v, a negative one included.
C28_RangeSetFrame ==
    [][(op' = "setrange" /\ result'.status = "ok") =>
           LET high == Get(other'.key.start)
               low == IF other'.key.stop = None THEN 0
                      ELSE Get(other'.key.stop)
           IN  \A k \in (0..(MaxBit + 2)) \ (low..(high - 1)) :
                   TwosBit(self'.si, k) = TwosBit(self.si, k)]_vars

\* every m with min <= m < max is a two's complement number of w bits; the
\* interval is not empty, so it is enough that min and max - 1 are
Holds(w, min, max) == -(2^(w - 1)) <= min /\ max - 1 < 2^(w - 1)

\* C29: when nrbits returns n > 0 for an instance with bounds, every m with
\* min <= m < max satisfies -2^(n-1) <= m < 2^(n-1), and for no width w with
\* 0 < w < n every such m satisfies -2^(w-1) <= m < 2^(w-1).
C29_NrBitsMinimal ==
    (op = "nrbits" /\ Returned /\ self.min # None /\ self.max # None) =>
        LET n == result.val
        IN  n > 0 =>
                /\ Holds(n, Get(self.min), Get(self.max))
                /\ \A w \in 1..(n - 1) :
                       ~Holds(w, Get(self.min), Get(self.max))

\* C30: for a fixbv b that is not zero, whatever the two shifts,
\* (a // b) * b + (a % b) == a, where a // b or a % b is the value the call
\* returned and the other one is computed from the same operands.
C30_DivisionIdentity ==
    (op \in {"floordiv", "mod"} /\ isfixbv(other) /\ other.si # 0) =>
        /\ Returned
        /\ LET q == IF op = "floordiv" THEN result.val
                    ELSE floordiv(self, other).val
               r == IF op = "mod" THEN result.val ELSE mod(self, other).val
           IN  eq(add(mul(q, other).val, r).val, self)

C30_Witness ==
    /\ op = "mod" /\ isfixbv(other) /\ Returned
    /\ self.shift < other.shift
    /\ self.si < 0 /\ other.si > 0
    /\ result.val.si # 0
    /\ floordiv(self, other).val.si < -1

====
